---- MODULE Spec2Model ----
(***************************************************************************)
(* Plinko-Lab: the commit-reveal round lifecycle (the HTTP handlers over   *)
(* the Round table) and the deterministic fairness engine (SHA-256         *)
(* commitments, the xorshift32 generator, the peg map and the drop         *)
(* simulation).                                                            *)
(*                                                                         *)
(* Representation.                                                         *)
(*  - A JavaScript string is a sequence of one-character strings.          *)
(*  - A 32-bit word is a record [hi, lo] of two 16-bit halves, so that no  *)
(*    intermediate value leaves the range of the checker's integers.       *)
(*  - A JavaScript Number held in Xorshift32.state is a record             *)
(*    [nan, neg, hi, lo]: NaN, or the integer +/-(hi * 2^16 + lo).         *)
(*  - A draw state / 2^32 is kept as its numerator, a word.                *)
(*  - A leftBias (6 decimals) is kept in millionths, an integer.           *)
(*  - A payout multiplier is kept in tenths, an integer.                   *)
(***************************************************************************)
EXTENDS Integers, Sequences, FiniteSets, Bags, TLC

(***************************************************************************)
(* Characters and strings                                                  *)
(***************************************************************************)

\* The characters the model's strings are made of, in a fixed order.
Alphabet ==
    << "0","1","2","3","4","5","6","7","8","9","a","b","c","d","e","f",
       ":","-","z","&","=","%","+"," ","x","?","A","F",
       "{","}","[","]",",",".","\"","r","o","w","s","l","t","B","i",
       "C","D","E" >>

HexDigits == << "0","1","2","3","4","5","6","7","8","9","a","b","c","d","e","f" >>

\* The code of a character: its place in Alphabet (the hash model absorbs it).
CodeTable == [c \in {Alphabet[i] : i \in 1..Len(Alphabet)} |->
                 CHOOSE i \in 1..Len(Alphabet) : Alphabet[i] = c]
CharCode(c) == CodeTable[c]

UpperHex == << "0","1","2","3","4","5","6","7","8","9","A","B","C","D","E","F" >>

\* A digit of radix 16 as parseInt reads it (upper or lower case), -1 otherwise.
HexValue(c) ==
    IF \E i \in 1..16 : HexDigits[i] = c
    THEN (CHOOSE i \in 1..16 : HexDigits[i] = c) - 1
    ELSE IF \E i \in 1..16 : UpperHex[i] = c
    THEN (CHOOSE i \in 1..16 : UpperHex[i] = c) - 1
    ELSE -1

\* Buffer.toString('hex'): two lowercase hex characters per byte.
RECURSIVE toHex(_)
toHex(bytes) ==
    IF bytes = << >> THEN << >>
    ELSE << HexDigits[(Head(bytes) \div 16) + 1], HexDigits[(Head(bytes) % 16) + 1] >>
         \o toHex(Tail(bytes))

\* The whole string where its first n characters are meant (the defect
\* substring(0, n) does not have).
wholeString(s, n) == s

\* String.prototype.substring(0, n)
substring0(s, n) == SubSeq(s, 1, IF Len(s) < n THEN Len(s) ELSE n)

(***************************************************************************)
(* SHA-256.  The digest function itself is Node's crypto module; what the  *)
(* repository fixes is that the message is absorbed whole and the 32-byte  *)
(* digest is rendered as 64 lowercase hex characters.  The compression     *)
(* function is modelled by a deterministic mixing of the message's         *)
(* characters into 32 bytes.                                               *)
(***************************************************************************)
DigestBytes == 32

HashInit == << 7, 11 >>

\* One character absorbed into the running state.
Mix(acc, ch) ==
    LET c  == CharCode(ch)
        a2 == (acc[1] * 31 + c) % 65521
        b2 == (acc[2] * 131 + a2 + c) % 65519
    IN << a2, b2 >>

\* The characters msg[lo..hi], absorbed in order.
RECURSIVE AbsorbRange(_, _, _, _)
AbsorbRange(msg, lo, hi, acc) ==
    IF lo > hi THEN acc
    ELSE IF lo = hi THEN Mix(acc, msg[lo])
    ELSE LET mid  == (lo + hi) \div 2
             left == AbsorbRange(msg, lo, mid, acc)
         IN IF left[1] >= 0 THEN AbsorbRange(msg, mid + 1, hi, left) ELSE left

\* hash.digest('hex')
Digest(acc) ==
    LET a  == acc[1]
        b  == acc[2]
        byte(i) ==
            IF i = 1 THEN a \div 256
            ELSE IF i = 2 THEN a % 256
            ELSE IF i = 3 THEN b \div 256
            ELSE IF i = 4 THEN b % 256
            ELSE (a * i + b * (i + 3) + 17 * i) % 256
    IN toHex([i \in 1..DigestBytes |-> byte(i)])

\* createHash('sha256').update(input).digest('hex')
sha256(input) == Digest(AbsorbRange(input, 1, Len(input), HashInit))

\* generateCommitHex: SHA256(serverSeed + ":" + nonce)
generateCommitHex(serverSeed, nonce) ==
    sha256(serverSeed \o << ":" >> \o nonce)

\* generateCombinedSeed: SHA256(serverSeed + ":" + clientSeed + ":" + nonce)
generateCombinedSeed(serverSeed, clientSeed, nonce) ==
    sha256(serverSeed \o << ":" >> \o clientSeed \o << ":" >> \o nonce)

\* A comparison of the first 8 characters only (the defect verifyCommit does not have).
verifyCommitPrefix(commitHex, serverSeed, nonce) ==
    substring0(commitHex, 8) = substring0(generateCommitHex(serverSeed, nonce), 8)

\* verifyCommit: exact string equality with the recomputed commitment.
verifyCommit(commitHex, serverSeed, nonce) ==
    commitHex = generateCommitHex(serverSeed, nonce)

(***************************************************************************)
(* 32-bit words                                                            *)
(***************************************************************************)
Half == 65536

Word(hi, lo) == [hi |-> hi, lo |-> lo]
ZeroWord == Word(0, 0)

\* a ^ b on 4-bit patterns, bit by bit
XorNibble ==
    [a \in 0..15, b \in 0..15 |->
        ((a + b) % 2)
        + 2 * (((a \div 2) + (b \div 2)) % 2)
        + 4 * (((a \div 4) + (b \div 4)) % 2)
        + 8 * (((a \div 8) + (b \div 8)) % 2)]

\* a ^ b on 16-bit patterns, nibble by nibble
Xor16(a, b) ==
    XorNibble[a % 16, b % 16]
    + 16 * XorNibble[(a \div 16) % 16, (b \div 16) % 16]
    + 256 * XorNibble[(a \div 256) % 16, (b \div 256) % 16]
    + 4096 * XorNibble[a \div 4096, b \div 4096]

\* a ^ b on 32-bit patterns
WordXor(x, y) == Word(Xor16(x.hi, y.hi), Xor16(x.lo, y.lo))

\* x << k (k < 16), the result truncated to 32 bits
WordShl(x, k) ==
    LET m  == 2 ^ k
        lo == x.lo * m
    IN Word((x.hi * m + lo \div Half) % Half, lo % Half)

\* x >>> 17 on the unsigned pattern
WordShr17(x) == Word(0, x.hi \div 2)

(***************************************************************************)
(* JavaScript Numbers as held by Xorshift32.state                          *)
(***************************************************************************)
NaN == [nan |-> TRUE, neg |-> FALSE, hi |-> 0, lo |-> 0]
Num(neg, w) == [nan |-> FALSE, neg |-> neg, hi |-> w.hi, lo |-> w.lo]

\* state === 0 (true of +0 and -0, false of NaN)
IsZero(n) == ~n.nan /\ n.hi = 0 /\ n.lo = 0

\* ToInt32 / ToUint32 bit pattern of a Number: NaN is 0, -m is 2^32 - m.
ToBits(n) ==
    IF n.nan THEN ZeroWord
    ELSE IF ~n.neg \/ (n.hi = 0 /\ n.lo = 0) THEN Word(n.hi, n.lo)
    ELSE IF n.lo = 0 THEN Word(Half - n.hi, 0)
    ELSE Word(Half - 1 - n.hi, Half - n.lo)

\* The value of a run of radix-16 digits (at most 8 of them) as a word.
RECURSIVE HexWord(_, _)
HexWord(digits, acc) ==
    IF digits = << >> THEN acc
    ELSE HexWord(Tail(digits),
                 Word((acc.hi * 16 + acc.lo \div 4096) % Half,
                      (acc.lo % 4096) * 16 + HexValue(Head(digits))))

\* The longest prefix of s made of radix-16 digits.
RECURSIVE HexPrefix(_)
HexPrefix(s) ==
    IF s = << >> \/ HexValue(Head(s)) < 0 THEN << >>
    ELSE << Head(s) >> \o HexPrefix(Tail(s))

RECURSIVE TrimLeft(_)
TrimLeft(s) == IF s # << >> /\ Head(s) = " " THEN TrimLeft(Tail(s)) ELSE s

\* parseInt(s, 16): leading white space, a sign, an optional 0x, then the
\* longest run of hex digits; NaN when that run is empty.
parseInt16(s) ==
    LET t      == TrimLeft(s)
        neg    == t # << >> /\ Head(t) = "-"
        u      == IF t # << >> /\ Head(t) \in {"-", "+"} THEN Tail(t) ELSE t
        v      == IF Len(u) >= 2 /\ u[1] = "0" /\ u[2] = "x" THEN Tail(Tail(u)) ELSE u
        digits == HexPrefix(v)
    IN IF digits = << >> THEN NaN ELSE Num(neg, HexWord(digits, ZeroWord))

(***************************************************************************)
(* Xorshift32                                                              *)
(***************************************************************************)
One == Num(FALSE, Word(0, 1))

\* constructor(seed): the state right after construction
Xorshift32(seed) ==
    LET state == parseInt16(substring0(seed, 8))
    IN IF IsZero(state) THEN One ELSE state

\* x ^= x << k
xorShl(x, k) == WordXor(x, WordShl(x, k))

\* x ^= x >>> 17
xorShr17(x) == WordXor(x, WordShr17(x))

\* next() with its two left shifts exchanged (the defect the code does not have).
XorshiftNextSwapped(state) ==
    Num(FALSE, xorShl(xorShr17(xorShl(ToBits(state), 5)), 13))

\* next(): the new state (x >>> 0); the draw returned is state / 2^32
XorshiftNext(state) ==
    Num(FALSE, xorShl(xorShr17(xorShl(ToBits(state), 13)), 5))

\* The draw next() returns for the state it has just stored.
DrawOf(state) == Word(state.hi, state.lo)

(***************************************************************************)
(* The Plinko engine                                                       *)
(***************************************************************************)
ROWS == 12
BINS == 13

Million == 1000000

\* Exact ties of toFixed(6): the draw is k / 128 with k odd and the exact
\* bias ends in ...5 at the 7th decimal.  The double 0.5 + (rand - 0.5) * 0.2
\* then lies just above or just below the tie; these k round up.
TieRoundsUp ==
    { 5, 7, 9, 15, 17, 19, 25, 27, 29, 35, 37, 39, 45, 47, 49, 55, 57, 59,
      65, 69, 71, 75, 79, 81, 85, 89, 91, 95, 99, 101, 105, 109, 111, 115,
      119, 121, 125 }

\* 0.5 + rand * 0.2 in millionths, rounded down (the defect of leaving out
\* the "- 0.5", which the code does not have).
leftBiasUncentred(rand) == 500000 + (3125 * rand.hi) \div 1024

\* Number((0.5 + (rand - 0.5) * 0.2).toFixed(6)) in millionths, for the draw
\* rand = (hi * 2^16 + lo) / 2^32:  400000 + round(3125 * s / 2^26).
leftBiasOf(rand) ==
    LET a    == 3125 * rand.hi
        b    == 3125 * rand.lo
        low  == (a % 1024) * Half + b
        q    == (a \div 1024) + (low \div 67108864)
        rem  == low % 67108864
        up   == IF rem = 33554432
                THEN (rand.hi \div 512) \in TieRoundsUp
                ELSE rem > 33554432
    IN 400000 + q + (IF up THEN 1 ELSE 0)

\* clamp(value, min, max)
clamp(value, min, max) ==
    LET m == IF value < max THEN value ELSE max
    IN IF m > min THEN m ELSE min

\* Exact ties of randomValue < adjustedBias: the draw is t / 64 and the sum
\* leftBias + adj equals it on paper.  The double sum lies one ulp above the
\* draw for these (t, dropColumn), so the comparison is true there.
TieGoesLeft ==
    { <<29, 0>>, <<29, 1>>, <<30, 0>>, <<30, 1>>, <<30, 2>>,
      <<31, 0>>, <<31, 1>>, <<31, 2>> }

\* randomValue < adjustedBias, adjustedBias in millionths
drawLess(rand, adjustedBias, dropColumn) ==
    LET b == rand.lo * 15625
        q == rand.hi * 15625 + (b \div Half)
        a == adjustedBias * 1024
    IN IF q = a /\ b % Half = 0
       THEN << rand.hi \div 1024, dropColumn >> \in TieGoesLeft
       ELSE q < a

\* The decimal digits of n, most significant first.
RECURSIVE Digits(_)
Digits(n) ==
    IF n < 10 THEN << HexDigits[n + 1] >>
    ELSE Digits(n \div 10) \o << HexDigits[(n % 10) + 1] >>

\* The 6 fraction digits of f millionths without the trailing zeros.
RECURSIVE FracDigits(_, _)
FracDigits(f, width) ==
    IF f % 10 = 0 THEN FracDigits(f \div 10, width - 1)
    ELSE LET d == Digits(f)
         IN [i \in 1..(width - Len(d)) |-> "0"] \o d

\* Number -> string of a bias held in millionths, as JSON.stringify writes it.
NumberToString(m) ==
    IF m % Million = 0 THEN Digits(m \div Million)
    ELSE Digits(m \div Million) \o << "." >> \o FracDigits(m % Million, 6)

\* JSON.stringify of one peg: {"leftBias":0.422123}
PegJson(peg) ==
    << "{","\"","l","e","f","t","B","i","a","s","\"",":" >>
    \o NumberToString(peg.leftBias) \o << "}" >>

\* JSON.stringify(pegMap): {"rows":[[{"leftBias":...}],[...],...]}
RECURSIVE JsonPegs(_, _)
JsonPegs(pegRow, n) ==
    IF n = 0 THEN << >>
    ELSE JsonPegs(pegRow, n - 1) \o (IF n > 1 THEN << "," >> ELSE << >>) \o PegJson(pegRow[n])

RECURSIVE JsonRows(_, _)
JsonRows(rows, n) ==
    IF n = 0 THEN << >>
    ELSE JsonRows(rows, n - 1) \o (IF n > 1 THEN << "," >> ELSE << >>)
         \o << "[" >> \o JsonPegs(rows[n], Len(rows[n])) \o << "]" >>

stringifyPegMap(pegMap) ==
    << "{","\"","r","o","w","s","\"",":","[" >>
    \o JsonRows(pegMap.rows, Len(pegMap.rows)) \o << "]", "}" >>

\* A fingerprint of the top row alone (the defect the code does not have).
hashPegMapTopRow(pegMap) ==
    sha256(stringifyPegMap([ rows |-> SubSeq(pegMap.rows, 1, 1) ]))

\* hashPegMap: sha256(JSON.stringify(pegMap))
hashPegMap(pegMap) == sha256(stringifyPegMap(pegMap))

(***************************************************************************)
(* generatePegMap, simulateDrop and computePlinkoOutcome.  The generator   *)
(* is an object: a function that draws from it takes its state g and hands *)
(* back the state it leaves, with the draws it made, in order.             *)
(***************************************************************************)
\* A push that reads the draw but leaves the generator where it was (the
\* defect of reusing a draw, which the code does not have).
pegPushStale(before, g2) ==
    [ pegRow |-> Append(before.pegRow, [leftBias |-> leftBiasOf(DrawOf(g2))]),
      g      |-> before.g,
      draws  |-> Append(before.draws, DrawOf(g2)) ]

\* One iteration of the inner loop: const rand = prng.next(), then the push.
pegPush(before, g2) ==
    [ pegRow |-> Append(before.pegRow, [leftBias |-> leftBiasOf(DrawOf(g2))]),
      g      |-> g2,
      draws  |-> Append(before.draws, DrawOf(g2)) ]

\* The inner loop of generatePegMap for one row: pegCount pegs, one draw each.
RECURSIVE pegRowLoop(_, _)
pegRowLoop(g, pegCount) ==
    IF pegCount = 0 THEN [ pegRow |-> << >>, g |-> g, draws |-> << >> ]
    ELSE LET before == pegRowLoop(g, pegCount - 1)
         IN pegPush(before, XorshiftNext(before.g))

\* rows.push(...pegs): every peg pushed as a row of its own (the defect
\* rows.push(pegs) does not have).
rowPushSpread(before, row) ==
    [ rows  |-> before.rows \o [i \in 1..Len(row.pegRow) |-> << row.pegRow[i] >>],
      g     |-> row.g,
      draws |-> before.draws \o row.draws ]

\* rows.push(pegs)
rowPush(before, row) ==
    [ rows  |-> Append(before.rows, row.pegRow),
      g     |-> row.g,
      draws |-> before.draws \o row.draws ]

\* The row loop of generatePegMap, its first n iterations (r = 0 .. n-1);
\* row r = n - 1 has r + 1 = n pegs.
RECURSIVE pegRowsLoop(_, _)
pegRowsLoop(g, n) ==
    IF n = 0 THEN [ rows |-> << >>, g |-> g, draws |-> << >> ]
    ELSE LET before == pegRowsLoop(g, n - 1)
         IN rowPush(before, pegRowLoop(before.g, n))

\* return { rows }
pegMapOf(all) == [ pegMap |-> [rows |-> all.rows], g |-> all.g, draws |-> all.draws ]

\* generatePegMap(prng)
generatePegMap(g) == pegMapOf(pegRowsLoop(g, ROWS))

\* The Number a dropColumn is: an integer n, or NaN.
Integer(n) == [ nan |-> FALSE, value |-> n ]
NotANumber == [ nan |-> TRUE, value |-> 0 ]

centerColumn == ROWS \div 2

\* adj with 0.1 per column in place of 0.01 (the defect the code does not have).
adjOfTenth(dropColumn) == (dropColumn.value - centerColumn) * 100000

\* (dropColumn - centerColumn) * 0.01, in millionths
adjOf(dropColumn) == (dropColumn.value - centerColumn) * 10000

\* The last peg of the row whatever the position (the defect of indexing by
\* the row, which the code does not have).
pegIndexLast(pos, r) == r

\* Math.min(pos, r)
pegIndexOf(pos, r) == IF pos < r THEN pos ELSE r

\* The loop body drawing once more for a ball dropped off centre (the defect
\* the code does not have).
dropDecideOffCentre(pegMap, dropColumn, before, r, g2) ==
    LET pegIndex     == pegIndexOf(before.pos, r)
        peg          == pegMap.rows[r + 1][pegIndex + 1]
        adjustedBias == IF dropColumn.nan THEN NotANumber
                        ELSE Integer(clamp(peg.leftBias + adjOf(dropColumn), 0, Million))
        randomValue  == DrawOf(IF dropColumn = Integer(centerColumn) THEN g2
                               ELSE XorshiftNext(g2))
        decision     == IF ~adjustedBias.nan
                           /\ drawLess(randomValue, adjustedBias.value, dropColumn.value)
                        THEN "LEFT" ELSE "RIGHT"
    IN [ path  |-> Append(before.path,
                     [ row |-> r, pegIndex |-> pegIndex, leftBias |-> peg.leftBias,
                       adjustedBias |-> adjustedBias, randomValue |-> randomValue,
                       decision |-> decision ]),
         pos   |-> IF decision = "RIGHT" THEN before.pos + 1 ELSE before.pos,
         g     |-> g2,
         draws |-> Append(before.draws, randomValue) ]

\* One iteration of the loop of simulateDrop, for row r; the call of
\* prng.next() in it leaves the generator in g2.  adjustedBias is a Number in
\* millionths: clamp gives NaN when adj is NaN, and randomValue < NaN is false.
dropDecide(pegMap, dropColumn, before, r, g2) ==
    LET pegIndex     == pegIndexOf(before.pos, r)
        peg          == pegMap.rows[r + 1][pegIndex + 1]
        adjustedBias == IF dropColumn.nan THEN NotANumber
                        ELSE Integer(clamp(peg.leftBias + adjOf(dropColumn), 0, Million))
        randomValue  == DrawOf(g2)
        decision     == IF ~adjustedBias.nan
                           /\ drawLess(randomValue, adjustedBias.value, dropColumn.value)
                        THEN "LEFT" ELSE "RIGHT"
    IN [ path  |-> Append(before.path,
                     [ row |-> r, pegIndex |-> pegIndex, leftBias |-> peg.leftBias,
                       adjustedBias |-> adjustedBias, randomValue |-> randomValue,
                       decision |-> decision ]),
         pos   |-> IF decision = "RIGHT" THEN before.pos + 1 ELSE before.pos,
         g     |-> g2,
         draws |-> Append(before.draws, randomValue) ]

\* The loop of simulateDrop, its first n iterations (r = 0 .. n-1).
RECURSIVE dropLoop(_, _, _, _)
dropLoop(pegMap, dropColumn, g, n) ==
    IF n = 0 THEN [ path |-> << >>, pos |-> 0, g |-> g, draws |-> << >> ]
    ELSE LET before == dropLoop(pegMap, dropColumn, g, n - 1)
         IN dropDecide(pegMap, dropColumn, before, n - 1, XorshiftNext(before.g))

\* binIndex as the number of LEFT moves (a defect the code does not have).
dropResultLeft(all) ==
    [ path |-> all.path, binIndex |-> ROWS - all.pos, g |-> all.g, draws |-> all.draws ]

\* binIndex one short of the position (a defect the code does not have).
dropResultShort(all) ==
    [ path |-> all.path, binIndex |-> all.pos - 1, g |-> all.g, draws |-> all.draws ]

\* simulateDrop returning twice the position as binIndex (the defect the code
\* does not have).
dropResultDoubled(all) ==
    [ path |-> all.path, binIndex |-> 2 * all.pos, g |-> all.g, draws |-> all.draws ]

\* return { path, binIndex: pos }
dropResult(all) ==
    [ path |-> all.path, binIndex |-> all.pos, g |-> all.g, draws |-> all.draws ]

\* simulateDrop(pegMap, dropColumn, prng)
simulateDrop(pegMap, dropColumn, g) == dropResult(dropLoop(pegMap, dropColumn, g, ROWS))

\* dropColumn < 0 || dropColumn > BINS - 1: a comparison with NaN is false
invalidDropColumn(dropColumn) ==
    \/ ~dropColumn.nan /\ dropColumn.value < 0
    \/ ~dropColumn.nan /\ dropColumn.value > BINS - 1

(***************************************************************************)
(* The paytable                                                            *)
(***************************************************************************)
\* PAYTABLE[binIndex].multiplier, in tenths
PAYTABLE == << 160, 90, 20, 14, 11, 10, 5, 10, 11, 14, 20, 90, 160 >>

\* binIndex < 0 || binIndex >= PAYTABLE.length: a comparison with NaN is false
invalidBinIndex(binIndex) ==
    \/ ~binIndex.nan /\ binIndex.value < 0
    \/ ~binIndex.nan /\ binIndex.value >= Len(PAYTABLE)

\* getMultiplier reading the entry of the next bin (the defect the code does
\* not have).
getMultiplierOfNext(binIndex) ==
    IF invalidBinIndex(binIndex) THEN [ error |-> TRUE, name |-> "Error", multiplier |-> 0 ]
    ELSE IF binIndex.nan THEN [ error |-> TRUE, name |-> "TypeError", multiplier |-> 0 ]
    ELSE [ error |-> FALSE, name |-> "",
           multiplier |-> PAYTABLE[((binIndex.value + 1) % Len(PAYTABLE)) + 1] ]

\* getMultiplier(binIndex), binIndex a Number: the multiplier, or the name of
\* what it threw.  PAYTABLE[NaN] is undefined, and reading .multiplier of
\* undefined throws a TypeError.
getMultiplier(binIndex) ==
    IF invalidBinIndex(binIndex) THEN [ error |-> TRUE, name |-> "Error", multiplier |-> 0 ]
    ELSE IF binIndex.nan THEN [ error |-> TRUE, name |-> "TypeError", multiplier |-> 0 ]
    ELSE [ error |-> FALSE, name |-> "", multiplier |-> PAYTABLE[binIndex.value + 1] ]

(***************************************************************************)
(* The inputs of the model: the seed strings handed to the generator and   *)
(* the engine, the random values the commit handler draws, and what the    *)
(* clients send.                                                           *)
(***************************************************************************)
\* The reference vector's combined seed (fairness.test.ts).
RefSeed ==
    << "e","1","d","d","d","f","7","7","d","e","2","7","d","3","9","5",
       "e","a","2","b","e","2","e","d","4","9","a","a","2","a","5","9",
       "b","d","6","b","f","1","2","e","e","8","d","3","5","0","c","1",
       "6","c","0","0","8","a","b","d","4","0","6","c","0","7","e","0" >>

\* A seed that shares its first 8 characters with RefSeed.
TwinSeed == << "e","1","d","d","d","f","7","7","0","0","f","f" >>

\* A seed whose first 8 characters parse to 0.
ZeroSeed == << "0","0","0","0","0","0","0","0","9","c" >>

\* Strings that are no digest: empty, signed, prefixed, not hexadecimal.
EmptySeed == << >>
MinusSeed == << "-","1","2","3","4","5","6","7","8","9" >>
PrefixSeed == << "0","x","1","f" >>
WordSeed == << "z","9" >>

\* The seed strings new Xorshift32(seed) is called with.
PrngSeeds ==
    { RefSeed, TwinSeed, ZeroSeed, EmptySeed, MinusSeed, PrefixSeed, WordSeed }

\* The arguments the callers of computePlinkoOutcome pass.
EngineInputs ==
    { << RefSeed, Integer(6) >>, << RefSeed, Integer(0) >>, << TwinSeed, Integer(6) >>,
      << ZeroSeed, Integer(12) >>, << EmptySeed, Integer(6) >>, << MinusSeed, Integer(3) >>,
      << RefSeed, Integer(13) >>, << ZeroSeed, Integer(-1) >>, << RefSeed, NotANumber >> }

\* The bin indexes getMultiplier is called with.
BinIndexes == { Integer(n) : n \in -2..(BINS + 1) } \cup { NotANumber }

\* The expected bin indexes replayRound is called with.
ExpectedBins == { Integer(n) : n \in 0..(BINS - 1) } \cup { NotANumber }

\* crypto.randomBytes(32): the byte strings the model lets it return.
SeedBytes == 32
RandomBytes ==
    { [i \in 1..SeedBytes |-> 178], [i \in 1..SeedBytes |-> (37 * i + 5) % 256] }

\* Math.floor(Math.random() * 1000000): the integers the model lets it return.
RandomNonces == { 42 }

\* generateSecureRandomHex(bytes) for the bytes crypto.randomBytes returned
generateSecureRandomHex(bytes) == toHex(bytes)

\* generateNonce() for the integer Math.floor(Math.random() * 1000000)
generateNonce(n) == Digits(n)

\* The clientSeed strings of the well-formed start requests.
ClientSeeds == << << "c","a","f","e" >>, << "a","&","b","="," ","+","%","1" >> >>

\* The dropColumn each of them comes with.
DropColumns == << 6, 0 >>

\* The combined seeds the start handler can compute from these.
CombinedSeeds ==
    { generateCombinedSeed(generateSecureRandomHex(b), cs, generateNonce(n)) :
        b \in RandomBytes, cs \in { ClientSeeds[i] : i \in 1..Len(ClientSeeds) }, n \in RandomNonces }

(***************************************************************************)
(* computePlinkoOutcome calls generatePegMap, hashPegMap and simulateDrop  *)
(* on a generator that was seeded from one of the strings above.  Their    *)
(* values for those generators are tabulated once; for any other argument  *)
(* the function is evaluated on the spot.                                  *)
(***************************************************************************)
SeededStates ==
    { Xorshift32(s) : s \in PrngSeeds \cup CombinedSeeds \cup { in[1] : in \in EngineInputs } }

PegMapTable == [ g \in SeededStates |-> generatePegMap(g) ]

\* hashPegMap on the peg maps of a table of generatePegMap
hashOn(tab) == [ pegMap \in { tab[s].pegMap : s \in DOMAIN tab } |-> hashPegMap(pegMap) ]

HashTable == hashOn(PegMapTable)

\* simulateDrop on the peg maps of a table of generatePegMap, each with the
\* generator as generatePegMap left it
dropOn(tab) ==
    [ in \in { << tab[s].pegMap, tab[s].g >> : s \in DOMAIN tab },
      dropColumn \in { Integer(n) : n \in 0..(BINS - 1) } \cup { NotANumber } |->
        simulateDrop(in[1], dropColumn, in[2]) ]

DropTable == dropOn(PegMapTable)

\* The tabulated value where there is one, the value computed otherwise.
tabulated(tab, arg, computed) == IF arg \in DOMAIN tab THEN tab[arg] ELSE computed

generatePegMapOn(g) == tabulated(PegMapTable, g, generatePegMap(g))

hashPegMapOf(pegMap) == tabulated(HashTable, pegMap, hashPegMap(pegMap))

simulateDropOn(pegMap, dropColumn, g) ==
    tabulated(DropTable, << << pegMap, g >>, dropColumn >>, simulateDrop(pegMap, dropColumn, g))

(***************************************************************************)
(* computePlinkoOutcome as a machine.  A call is a record m; the generator *)
(* it constructs is an object of the heap.  Its steps are its entry (the   *)
(* argument check and new Xorshift32) and the three calls it makes:        *)
(* generatePegMap, hashPegMap, simulateDrop.                               *)
(***************************************************************************)
NoHash == << >>
NoPegMap == [ rows |-> << >> ]

IdleCall ==
    [ pc |-> "idle", combinedSeed |-> << >>, dropColumn |-> Integer(0), prng |-> 0,
      gen |-> 0, pegMap |-> NoPegMap, pegMapHash |-> NoHash,
      path |-> << >>, binIndex |-> 0 ]

\* The entry of computePlinkoOutcome: the argument check, then new Xorshift32.
enterCall(combinedSeed, dropColumn, prngId) ==
    IF invalidDropColumn(dropColumn)
    THEN [IdleCall EXCEPT !.pc = "thrown", !.combinedSeed = combinedSeed,
                          !.dropColumn = dropColumn]
    ELSE [IdleCall EXCEPT !.pc = "peg", !.combinedSeed = combinedSeed,
                          !.dropColumn = dropColumn, !.prng = prngId]

\* The call and the generator after a function that drew from it returned.
afterPeg(m, res) ==
    [ m |-> [m EXCEPT !.pegMap = res.pegMap, !.pc = "hash"],
      g |-> res.g, draws |-> res.draws ]

\* const pegMap = generatePegMap(prng)
pegStep(m, g) == afterPeg(m, generatePegMapOn(g))

\* const pegMapHash = hashPegMap(pegMap)
hashStep(m, g) ==
    [ m |-> [m EXCEPT !.pegMapHash = hashPegMapOf(m.pegMap), !.pc = "drop"],
      g |-> g, draws |-> << >> ]

afterDrop(m, res) ==
    [ m |-> [m EXCEPT !.path = res.path, !.binIndex = res.binIndex, !.pc = "done"],
      g |-> res.g, draws |-> res.draws ]

\* simulateDrop on a generator seeded anew from combinedSeed (the defect of
\* restarting the stream, which the code does not have).
dropStepReseeded(m, g) ==
    afterDrop(m, simulateDropOn(m.pegMap, m.dropColumn, Xorshift32(m.combinedSeed)))

\* const { path, binIndex } = simulateDrop(pegMap, dropColumn, prng)
dropStep(m, g) == afterDrop(m, simulateDropOn(m.pegMap, m.dropColumn, g))

\* What a finished call hands back: the PlinkoResult, or the Error thrown.
resultOf(m) ==
    IF m.pc = "thrown" THEN [ error |-> TRUE ]
    ELSE [ error |-> FALSE, pegMap |-> m.pegMap, pegMapHash |-> m.pegMapHash,
           path |-> m.path, binIndex |-> m.binIndex ]

\* hashPegMap(pegMap) and simulateDrop(pegMap, dropColumn, prng), after
\* generatePegMap(prng) has returned.
afterPegMap(s) == dropStep(hashStep(s.m, s.g).m, s.g)

\* computePlinkoOutcome(combinedSeed, dropColumn), run from entry to return
\* on a generator of its own.
computePlinkoOutcome(combinedSeed, dropColumn) ==
    LET m0 == enterCall(combinedSeed, dropColumn, 1)
    IN resultOf(IF m0.pc = "thrown" THEN m0
                ELSE afterPegMap(pegStep(m0, Xorshift32(combinedSeed))).m)

\* replayRound's && of two comparisons, replaced by || (the defect the code
\* does not have).
replayMatchesEither(result, expectedBinIndex, expectedPegMapHash) ==
    \/ ~expectedBinIndex.nan /\ expectedBinIndex.value = result.binIndex
    \/ result.pegMapHash = expectedPegMapHash

\* result.binIndex === expectedBinIndex && result.pegMapHash === expectedPegMapHash;
\* the Number NaN is strictly equal to nothing.
replayMatches(result, expectedBinIndex, expectedPegMapHash) ==
    /\ ~expectedBinIndex.nan /\ expectedBinIndex.value = result.binIndex
    /\ result.pegMapHash = expectedPegMapHash

\* What replayRound returns for the result of its computePlinkoOutcome call;
\* the Error of that call propagates.
replayOf(result, expectedBinIndex, expectedPegMapHash) ==
    IF result.error THEN [ error |-> TRUE ]
    ELSE [ error |-> FALSE, result |-> result,
           matches |-> replayMatches(result, expectedBinIndex, expectedPegMapHash) ]

\* replayRound(combinedSeed, dropColumn, expectedBinIndex, expectedPegMapHash)
replayRound(combinedSeed, dropColumn, expectedBinIndex, expectedPegMapHash) ==
    replayOf(computePlinkoOutcome(combinedSeed, dropColumn), expectedBinIndex, expectedPegMapHash)

(***************************************************************************)
(* State                                                                   *)
(***************************************************************************)
VARIABLES
    rounds,     \* the Round table: a sequence of rows, the id is the index
    inflight,   \* the handlers suspended at an await, with their locals
    lastResp,   \* the HTTP response the last step sent (NoResp if none)
    startOk,    \* per round, how many start requests were answered 200
    calls,      \* the computePlinkoOutcome calls in progress, per caller
    prngs,      \* the heap of Xorshift32 objects: the state field of each
    drawn,      \* per constructed generator: its seed and the draws it returned
    returned,   \* the results returned so far, each with its arguments
    nCalls,     \* how many calls have been entered
    applied     \* the last direct call of getMultiplier or replayRound

protoVars  == << rounds, inflight, lastResp, startOk >>
engineVars == << calls, prngs, drawn, returned, nCalls, applied >>
vars       == << rounds, inflight, lastResp, startOk,
                 calls, prngs, drawn, returned, nCalls, applied >>

(***************************************************************************)
(* Xorshift32 objects                                                      *)
(***************************************************************************)

\* One cell for every generator object (the defect new Xorshift32 does not have).
sharedPrng(heap) == 1

\* The generator constructed last handed out again (the defect new
\* Xorshift32 does not have).
lastPrng(heap) == IF heap = << >> THEN 1 ELSE Len(heap)

\* new Xorshift32(...): the object is a fresh cell of the heap.
allocPrng(heap) == Len(heap) + 1

\* A new generator that carries on from the last one constructed instead of
\* its own seed (the defect the constructor does not have).
linkPrng(heap, id, state) ==
    IF heap = << >> THEN << state >> ELSE Append(heap, heap[Len(heap)])

\* this.state = ... in the constructor: the object's cell receives its state
storePrng(heap, id, state) ==
    IF id > Len(heap) THEN Append(heap, state) ELSE [heap EXCEPT ![id] = state]

MaxPrngs == 2
MaxDraws == 3

\* new Xorshift32(seed)
NewPrng(seed) ==
    /\ Len(drawn) < MaxPrngs
    /\ LET id == allocPrng(prngs)
       IN /\ prngs' = storePrng(prngs, id, Xorshift32(seed))
          /\ drawn' = Append(drawn, [seed |-> seed, prng |-> id, draws |-> << >>])
    /\ UNCHANGED << calls, returned, nCalls, applied, protoVars >>

\* next() on the i-th generator constructed
NextDraw(i) ==
    /\ i \in 1..Len(drawn)
    /\ Len(drawn[i].draws) < MaxDraws
    /\ LET id    == drawn[i].prng
           state == XorshiftNext(prngs[id])
       IN /\ prngs' = [prngs EXCEPT ![id] = state]
          /\ drawn' = [drawn EXCEPT ![i].draws = Append(@, DrawOf(state))]
    /\ UNCHANGED << calls, returned, nCalls, applied, protoVars >>

(***************************************************************************)
(* The engine's callers.  Calls made on parallel workers interleave at the *)
(* calls computePlinkoOutcome makes; a single worker runs one at a time.   *)
(***************************************************************************)
Callers == { 1, 2 }

MaxCalls == 3

\* A caller enters computePlinkoOutcome(combinedSeed, dropColumn).
Call(c, in) ==
    /\ calls[c].pc = "idle"
    /\ nCalls < MaxCalls
    /\ LET id == allocPrng(prngs)
           m  == enterCall(in[1], in[2], id)
       IN /\ calls' = [calls EXCEPT ![c] = [m EXCEPT !.gen =
                           IF m.pc = "thrown" THEN 0 ELSE Len(drawn) + 1]]
          /\ prngs' = IF m.pc = "thrown" THEN prngs
                      ELSE storePrng(prngs, id, Xorshift32(in[1]))
          /\ drawn' = IF m.pc = "thrown" THEN drawn
                      ELSE Append(drawn, [seed |-> in[1], prng |-> id, draws |-> << >>])
    /\ nCalls' = nCalls + 1
    /\ UNCHANGED << returned, applied, protoVars >>

\* The call of caller c has taken a step on its generator.
Advance(c, m, res) ==
    /\ calls' = [calls EXCEPT ![c] = res.m]
    /\ prngs' = [prngs EXCEPT ![m.prng] = res.g]
    /\ drawn' = [drawn EXCEPT ![m.gen].draws = @ \o res.draws]
    /\ UNCHANGED << returned, nCalls, applied, protoVars >>

\* generatePegMap(prng)
PegStep(c) ==
    /\ calls[c].pc = "peg"
    /\ Advance(c, calls[c], pegStep(calls[c], prngs[calls[c].prng]))

\* hashPegMap(pegMap)
HashStep(c) ==
    /\ calls[c].pc = "hash"
    /\ Advance(c, calls[c], hashStep(calls[c], prngs[calls[c].prng]))

\* simulateDrop(pegMap, dropColumn, prng)
DropStep(c) ==
    /\ calls[c].pc = "drop"
    /\ Advance(c, calls[c], dropStep(calls[c], prngs[calls[c].prng]))

\* The call returns its PlinkoResult, or its Error propagates.
Return(c) ==
    /\ calls[c].pc \in {"done", "thrown"}
    /\ returned' = returned \cup
                     { [ combinedSeed |-> calls[c].combinedSeed,
                         dropColumn   |-> calls[c].dropColumn,
                         result       |-> resultOf(calls[c]) ] }
    /\ calls' = [calls EXCEPT ![c] = IdleCall]
    /\ UNCHANGED << prngs, drawn, nCalls, applied, protoVars >>

(***************************************************************************)
(* The library functions called directly, as the test suite and a verifier *)
(* call them.                                                              *)
(***************************************************************************)
\* getMultiplier(binIndex)
GetMultiplier(binIndex) ==
    /\ applied' = [ fn |-> "getMultiplier", binIndex |-> binIndex,
                    result |-> getMultiplier(binIndex) ]
    /\ UNCHANGED << calls, prngs, drawn, returned, nCalls, protoVars >>

\* replayRound(combinedSeed, dropColumn, expectedBinIndex, expectedPegMapHash)
ReplayRound(in, expectedBinIndex, expectedPegMapHash) ==
    /\ applied' = [ fn |-> "replayRound", combinedSeed |-> in[1], dropColumn |-> in[2],
                    expectedBinIndex |-> expectedBinIndex,
                    expectedPegMapHash |-> expectedPegMapHash,
                    result |-> replayRound(in[1], in[2], expectedBinIndex, expectedPegMapHash) ]
    /\ UNCHANGED << calls, prngs, drawn, returned, nCalls, protoVars >>

(***************************************************************************)
(* URLs: encodeURIComponent, URLSearchParams, parseInt(s, 10)              *)
(***************************************************************************)
\* The characters of Alphabet that encodeURIComponent escapes, with their codes.
Escaped ==
    { << " ", 32 >>, << "\"", 34 >>, << "%", 37 >>, << "&", 38 >>, << "+", 43 >>,
      << ",", 44 >>, << ":", 58 >>, << "=", 61 >>, << "?", 63 >>, << "[", 91 >>,
      << "]", 93 >>, << "{", 123 >>, << "}", 125 >> }

\* encodeURIComponent of one character: %XX for an escaped one, itself otherwise.
encodeChar(c) ==
    IF \E e \in Escaped : e[1] = c
    THEN LET code == (CHOOSE e \in Escaped : e[1] = c)[2]
         IN << "%", UpperHex[(code \div 16) + 1], UpperHex[(code % 16) + 1] >>
    ELSE << c >>

RECURSIVE encodeURIComponent(_)
encodeURIComponent(s) ==
    IF s = << >> THEN << >> ELSE encodeChar(Head(s)) \o encodeURIComponent(Tail(s))

\* The first index i >= from with s[i] = c, or 0.
indexOf(s, c, from) ==
    IF \E i \in from..Len(s) : s[i] = c
    THEN CHOOSE i \in from..Len(s) : s[i] = c /\ \A j \in from..(i - 1) : s[j] # c
    ELSE 0

\* "+" read as a space (application/x-www-form-urlencoded)
plusToSpace(s) == [i \in 1..Len(s) |-> IF s[i] = "+" THEN " " ELSE s[i]]

\* A value left as it stands in the URL (the defect the parser does not have).
rawValue(s) == s

\* The value of a form-urlencoded name or value: "+" is a space, %XX is the
\* character of that code; a "%" that starts no escape stays.
RECURSIVE percentDecode(_)
percentDecode(s) ==
    LET i == indexOf(s, "%", 1)
    IN IF i = 0 THEN plusToSpace(s)
       ELSE IF /\ i + 2 <= Len(s)
               /\ HexValue(s[i + 1]) >= 0
               /\ HexValue(s[i + 2]) >= 0
               /\ \E e \in Escaped : e[2] = 16 * HexValue(s[i + 1]) + HexValue(s[i + 2])
            THEN plusToSpace(SubSeq(s, 1, i - 1))
                 \o << (CHOOSE e \in Escaped :
                          e[2] = 16 * HexValue(s[i + 1]) + HexValue(s[i + 2]))[1] >>
                 \o percentDecode(SubSeq(s, i + 3, Len(s)))
            ELSE plusToSpace(SubSeq(s, 1, i)) \o percentDecode(SubSeq(s, i + 1, Len(s)))

\* The name=value pairs of a query string, each with the place it starts at.
searchParams(query) ==
    LET cuts == { 0, Len(query) + 1 } \cup { i \in 1..Len(query) : query[i] = "&" }
        segs == { [ at  |-> a,
                    seg |-> SubSeq(query, a + 1,
                                   (CHOOSE b \in cuts : b > a /\ \A d \in cuts : d > a => d >= b) - 1) ] :
                  a \in cuts \ { Len(query) + 1 } }
    IN { LET eq == indexOf(p.seg, "=", 1)
         IN [ at    |-> p.at,
              name  |-> percentDecode(IF eq = 0 THEN p.seg ELSE SubSeq(p.seg, 1, eq - 1)),
              value |-> percentDecode(IF eq = 0 THEN << >>
                                      ELSE SubSeq(p.seg, eq + 1, Len(p.seg))) ] :
         p \in { q \in segs : q.seg # << >> } }

\* null: no string of characters is equal to it
Null == << "null" >>

\* searchParams.get(name): the value of the first pair of that name, or null
getParam(params, name) ==
    IF \E p \in params : p.name = name
    THEN (CHOOSE p \in params : p.name = name /\ \A q \in params : q.name = name => q.at >= p.at).value
    ELSE Null

\* !value for a string or null
falsy(value) == value = Null \/ value = << >>

\* The value of a run of decimal digits.
RECURSIVE DecimalValue(_)
DecimalValue(digits) ==
    IF digits = << >> THEN 0
    ELSE 10 * DecimalValue(SubSeq(digits, 1, Len(digits) - 1))
         + HexValue(digits[Len(digits)])

\* The longest prefix of s made of decimal digits.
RECURSIVE DecimalPrefix(_)
DecimalPrefix(s) ==
    IF s = << >> \/ HexValue(Head(s)) < 0 \/ HexValue(Head(s)) > 9 THEN << >>
    ELSE << Head(s) >> \o DecimalPrefix(Tail(s))

\* parseInt(s, 10): leading white space, a sign, the longest run of decimal
\* digits; NaN when that run is empty.
parseInt10(s) ==
    LET t      == TrimLeft(s)
        neg    == t # << >> /\ Head(t) = "-"
        u      == IF t # << >> /\ Head(t) \in {"-", "+"} THEN Tail(t) ELSE t
        digits == DecimalPrefix(u)
    IN IF digits = << >> THEN [ nan |-> TRUE, value |-> 0 ]
       ELSE [ nan |-> FALSE,
              value |-> IF neg THEN 0 - DecimalValue(digits) ELSE DecimalValue(digits) ]

\* String(value) of an integer
String(n) == IF n < 0 THEN << "-" >> \o Digits(0 - n) ELSE Digits(n)

\* escapeCsv(value) of a string: quoted, its quotes doubled, when it holds a
\* quote or a comma (the model's strings hold no line breaks)
RECURSIVE doubleQuotes(_)
doubleQuotes(s) ==
    IF s = << >> THEN << >>
    ELSE (IF Head(s) = "\"" THEN << "\"", "\"" >> ELSE << Head(s) >>) \o doubleQuotes(Tail(s))

escapeCsv(s) ==
    IF \E i \in 1..Len(s) : s[i] \in { "\"", "," }
    THEN << "\"" >> \o doubleQuotes(s) \o << "\"" >>
    ELSE s

(***************************************************************************)
(* The Round table and the HTTP handlers.  A handler runs from one await   *)
(* to the next without interruption; at an await on prisma other handlers  *)
(* may run.  findUnique, create and update are each one step of the        *)
(* database.  JSON bodies are records, a list of rows is the set of its    *)
(* entries (no request of the model carries a limit below the table size). *)
(***************************************************************************)
MaxRounds == 1
MaxInflight == 2

\* findUnique found no row.
NoRound == [ status |-> "NONE", serverSeed |-> << >>, nonce |-> << >> ]

\* A reveal request has no body.
NoBody == [ clientSeed |-> << >>, betCents |-> 0, dropColumn |-> 0 ]

\* The fields of the row it read that a suspended handler goes on to use.
held(round) ==
    [ status |-> round.status, serverSeed |-> round.serverSeed, nonce |-> round.nonce ]

\* The handlers suspended at their update are a bag: two requests may be alike.
suspend(bag, handler) == bag (+) SetToBag({ handler })
resume(bag, handler) == bag (-) SetToBag({ handler })

\* prisma.round.create({ data }) in POST /api/rounds/commit
newRound(serverSeed, nonce, commitHex) ==
    [ status |-> "CREATED", nonce |-> nonce, commitHex |-> commitHex,
      serverSeed |-> serverSeed, clientSeed |-> << >>, combinedSeed |-> << >>,
      pegMapHash |-> << >>, rows |-> ROWS, dropColumn |-> 0, binIndex |-> 0,
      payoutMultiplier |-> 0, betCents |-> 0, pathJson |-> << >>,
      revealedAt |-> FALSE ]

\* prisma.round.update({ where: { id }, data }): the fields of data, no other
updateRound(table, id, data) ==
    [table EXCEPT ![id] =
        [f \in DOMAIN table[id] |-> IF f \in DOMAIN data THEN data[f] ELSE table[id][f]]]

\* prisma.round.findUnique({ where: { id } })
findUnique(table, id) == IF id \in DOMAIN table THEN table[id] ELSE NoRound

\* The data of the update in POST start, with the status left out.
startDataNoStatus(clientSeed, combinedSeed, outcome, dropColumn, payoutMultiplier, betCents) ==
    [ clientSeed |-> clientSeed, combinedSeed |-> combinedSeed,
      pegMapHash |-> outcome.pegMapHash, dropColumn |-> dropColumn,
      binIndex |-> outcome.binIndex, payoutMultiplier |-> payoutMultiplier,
      betCents |-> betCents, pathJson |-> outcome.path ]

\* The data of the update in POST start, with the combined seed left out.
startDataNoSeed(clientSeed, combinedSeed, outcome, dropColumn, payoutMultiplier, betCents) ==
    [ status |-> "STARTED", clientSeed |-> clientSeed,
      pegMapHash |-> outcome.pegMapHash, dropColumn |-> dropColumn,
      binIndex |-> outcome.binIndex, payoutMultiplier |-> payoutMultiplier,
      betCents |-> betCents, pathJson |-> outcome.path ]

\* The data of the update in POST start.
startData(clientSeed, combinedSeed, outcome, dropColumn, payoutMultiplier, betCents) ==
    [ status |-> "STARTED", clientSeed |-> clientSeed, combinedSeed |-> combinedSeed,
      pegMapHash |-> outcome.pegMapHash, dropColumn |-> dropColumn,
      binIndex |-> outcome.binIndex, payoutMultiplier |-> payoutMultiplier,
      betCents |-> betCents, pathJson |-> outcome.path ]

\* The data of an update that also clears the round's combined seed.
revealDataClearing == [ status |-> "REVEALED", revealedAt |-> TRUE, combinedSeed |-> << >> ]

\* The data of the update in POST reveal.
revealData == [ status |-> "REVEALED", revealedAt |-> TRUE ]

\* No response: the step sent none.
NoResp == [ kind |-> "none" ]

\* The server writes one response at a time: a handler step waits until the
\* response of the step before it has gone out.
idle == lastResp.kind = "none"

Json(kind, status, body) == [ kind |-> kind, status |-> status, body |-> body ]

\* POST /api/rounds/commit
Commit(bytes, n) ==
    /\ idle
    /\ Len(rounds) < MaxRounds
    /\ LET serverSeed == generateSecureRandomHex(bytes)
           nonce      == generateNonce(n)
           commitHex  == generateCommitHex(serverSeed, nonce)
           round      == newRound(serverSeed, nonce, commitHex)
       IN /\ rounds' = Append(rounds, round)
          /\ lastResp' = Json("commit", 200,
                              [ roundId |-> Len(rounds) + 1, commitHex |-> round.commitHex,
                                nonce |-> round.nonce ])
    /\ startOk' = Append(startOk, 0)
    /\ UNCHANGED << inflight, engineVars >>

\* The bodies of the start requests: well-formed ones, and one that fails
\* each check of the handler.
StartBodies ==
    { [ clientSeed |-> ClientSeeds[i], betCents |-> 100, dropColumn |-> DropColumns[i] ] :
        i \in 1..Len(ClientSeeds) }
    \cup { [ clientSeed |-> << >>, betCents |-> 100, dropColumn |-> 6 ],
           [ clientSeed |-> << "c","a","f","e" >>, betCents |-> 0, dropColumn |-> 6 ],
           [ clientSeed |-> << "c","a","f","e" >>, betCents |-> 100, dropColumn |-> 13 ] }

\* The check of the body in POST start: the error it is answered with, or "".
startBodyError(body) ==
    IF body.clientSeed = << >> THEN "clientSeed is required and must be a string"
    ELSE IF body.betCents <= 0 THEN "betCents must be a positive number"
    ELSE IF body.dropColumn < 0 \/ body.dropColumn > 12
         THEN "dropColumn must be between 0 and 12"
    ELSE ""

\* POST /api/rounds/[id]/start up to the answer of findUnique
StartRead(id, body) ==
    /\ idle
    /\ BagCardinality(inflight) < MaxInflight
    /\ IF startBodyError(body) # ""
       THEN /\ lastResp' = Json("start", 400, [ error |-> startBodyError(body) ])
            /\ UNCHANGED inflight
       ELSE /\ inflight' = suspend(inflight,
                               [ op |-> "start", id |-> id, body |-> body,
                                 round |-> held(findUnique(rounds, id)) ])
            /\ lastResp' = NoResp
    /\ UNCHANGED << rounds, startOk, engineVars >>

\* POST start answers with an error and writes nothing.
startFail(status, message) ==
    /\ lastResp' = Json("start", status, [ error |-> message ])
    /\ UNCHANGED << rounds, startOk >>

\* computePlinkoOutcome has returned or thrown: getMultiplier, the update
\* and the response, or the catch block.
startComputed(id, body, combinedSeed, outcome) ==
    LET payout == IF outcome.error THEN [ error |-> TRUE ]
                  ELSE getMultiplier(Integer(outcome.binIndex))
        table  == updateRound(rounds, id,
                      startData(body.clientSeed, combinedSeed, outcome,
                                body.dropColumn, payout.multiplier, body.betCents))
    IN IF payout.error THEN startFail(500, "Failed to start round")
       ELSE /\ rounds' = table
            /\ startOk' = [startOk EXCEPT ![id] = @ + 1]
            /\ lastResp' = Json("start", 200,
                  [ roundId |-> id, pegMapHash |-> table[id].pegMapHash,
                    rows |-> table[id].rows, path |-> outcome.path,
                    binIndex |-> outcome.binIndex,
                    payoutMultiplier |-> payout.multiplier,
                    payout |-> body.betCents * payout.multiplier ])

\* POST /api/rounds/[id]/start from the answer of findUnique on
StartWrite(h) ==
    /\ idle
    /\ h \in BagToSet(inflight)
    /\ h.op = "start"
    /\ IF h.round.status = "NONE" THEN startFail(404, "Round not found")
       ELSE IF h.round.status # "CREATED"
       THEN startFail(400, "Round has already been started")
       ELSE LET combinedSeed == generateCombinedSeed(h.round.serverSeed,
                                                     h.body.clientSeed, h.round.nonce)
            IN startComputed(h.id, h.body, combinedSeed,
                             computePlinkoOutcome(combinedSeed, Integer(h.body.dropColumn)))
    /\ inflight' = resume(inflight, h)
    /\ UNCHANGED engineVars

\* POST /api/rounds/[id]/reveal up to the answer of findUnique
RevealRead(id) ==
    /\ idle
    /\ BagCardinality(inflight) < MaxInflight
    /\ inflight' = suspend(inflight,
                       [ op |-> "reveal", id |-> id, body |-> NoBody,
                         round |-> held(findUnique(rounds, id)) ])
    /\ lastResp' = NoResp
    /\ UNCHANGED << rounds, startOk, engineVars >>

\* POST /api/rounds/[id]/reveal from the answer of findUnique on
RevealWrite(h) ==
    /\ idle
    /\ h \in BagToSet(inflight)
    /\ h.op = "reveal"
    /\ LET id    == h.id
           round == h.round
       IN IF round.status = "NONE"
          THEN /\ lastResp' = Json("reveal", 404, [ error |-> "Round not found" ])
               /\ UNCHANGED rounds
          ELSE IF round.status # "STARTED"
          THEN /\ lastResp' = Json("reveal", 400,
                                   [ error |-> "Round must be started before revealing" ])
               /\ UNCHANGED rounds
          ELSE LET table == updateRound(rounds, id, revealData)
               IN /\ rounds' = table
                  /\ lastResp' = Json("reveal", 200,
                        [ roundId |-> id, serverSeed |-> table[id].serverSeed,
                          nonce |-> table[id].nonce, clientSeed |-> table[id].clientSeed,
                          commitHex |-> table[id].commitHex,
                          combinedSeed |-> table[id].combinedSeed ])
    /\ inflight' = resume(inflight, h)
    /\ UNCHANGED << startOk, engineVars >>

\* GET /api/rounds/[id]
GetRound(id) ==
    /\ idle
    /\ LET round == findUnique(rounds, id)
           base  == [ id |-> id, status |-> round.status, nonce |-> round.nonce,
                      commitHex |-> round.commitHex, rows |-> round.rows ]
           game  == [ clientSeed |-> round.clientSeed, dropColumn |-> round.dropColumn,
                      binIndex |-> round.binIndex,
                      payoutMultiplier |-> round.payoutMultiplier,
                      betCents |-> round.betCents,
                      payout |-> round.betCents * round.payoutMultiplier,
                      pegMapHash |-> round.pegMapHash, path |-> round.pathJson ]
           seeds == [ serverSeed |-> round.serverSeed, combinedSeed |-> round.combinedSeed,
                      revealedAt |-> round.revealedAt ]
       IN lastResp' =
            IF round.status = "NONE" THEN Json("round", 404, [ error |-> "Round not found" ])
            ELSE IF round.status = "REVEALED" THEN Json("round", 200, base @@ game @@ seeds)
            ELSE IF round.status = "STARTED" THEN Json("round", 200, base @@ game)
            ELSE Json("round", 200, base)
    /\ UNCHANGED << rounds, inflight, startOk, engineVars >>

\* The verifier link of a round, from its "?" on:
\* serverSeed=...&clientSeed=...&nonce=...&dropColumn=...
verifyQuery(round) ==
    << "s","e","r","v","e","r","S","e","e","d","=" >> \o encodeURIComponent(round.serverSeed)
    \o << "&","c","l","i","e","n","t","S","e","e","d","=" >> \o encodeURIComponent(round.clientSeed)
    \o << "&","n","o","n","c","e","=" >> \o encodeURIComponent(round.nonce)
    \o << "&","d","r","o","p","C","o","l","u","m","n","=" >> \o String(round.dropColumn)

\* `/verify?serverSeed=...`
verifyLink(round) == << "/","v","e","r","i","f","y","?" >> \o verifyQuery(round)

\* One entry of the list GET /api/rounds returns.
roundEntry(id, round) ==
    [ roundId |-> id, commitHex |-> round.commitHex, nonce |-> round.nonce,
      clientSeed |-> round.clientSeed, serverSeed |-> round.serverSeed,
      combinedSeed |-> round.combinedSeed, pegMapHash |-> round.pegMapHash,
      rows |-> round.rows, dropColumn |-> round.dropColumn, binIndex |-> round.binIndex,
      payoutMultiplier |-> round.payoutMultiplier, betCents |-> round.betCents,
      path |-> round.pathJson, status |-> round.status, revealedAt |-> round.revealedAt,
      verifyLink |-> verifyLink(round) ]

\* prisma.round.findMany({ where: { status } }): the ids of the rows found
findMany(table, status) == { id \in DOMAIN table : table[id].status = status }

\* The limit parameters of the list requests: none, or one out of range.
LimitParams == { Null, << "0" >>, << "z" >> }

\* GET /api/rounds
GetRounds(limitStr) ==
    /\ idle
    /\ LET limit == IF falsy(limitStr) THEN [ nan |-> FALSE, value |-> 20 ]
                    ELSE parseInt10(limitStr)
           found == findMany(rounds, "REVEALED")
       IN lastResp' =
            IF limit.nan \/ limit.value < 1 \/ limit.value > 100
            THEN Json("rounds", 400, [ error |-> "limit must be a number between 1 and 100" ])
            ELSE Json("rounds", 200,
                      [ rounds |-> { roundEntry(id, rounds[id]) : id \in found },
                        count |-> Cardinality(found), limit |-> limit.value ])
    /\ UNCHANGED << rounds, inflight, startOk, engineVars >>

\* The status parameters of the export requests: none, ALL, or a status.
StatusParams == { Null, << "A","L","L" >>, << "C","R","E","A","T","E","D" >>,
                  << "S","T","A","R","T","E","D" >> }

\* The status a parameter names.
statusNamed(param) ==
    IF param = << "C","R","E","A","T","E","D" >> THEN "CREATED"
    ELSE IF param = << "S","T","A","R","T","E","D" >> THEN "STARTED"
    ELSE IF param = << "R","E","V","E","A","L","E","D" >> THEN "REVEALED"
    ELSE "?"

\* One line of the CSV: the cells of a row, each through escapeCsv.
csvRow(id, round) ==
    << escapeCsv(String(id)), round.status, escapeCsv(round.commitHex),
       escapeCsv(round.nonce), escapeCsv(round.serverSeed), escapeCsv(round.clientSeed),
       escapeCsv(round.combinedSeed), escapeCsv(round.pegMapHash),
       escapeCsv(String(round.rows)), escapeCsv(String(round.dropColumn)),
       escapeCsv(String(round.binIndex)), round.payoutMultiplier,
       escapeCsv(String(round.betCents)), round.revealedAt >>

\* GET /api/rounds/export
Export(statusParam) ==
    /\ idle
    /\ LET status == IF falsy(statusParam) THEN << "R","E","V","E","A","L","E","D" >>
                     ELSE statusParam
           found  == IF status = << "A","L","L" >> THEN DOMAIN rounds
                     ELSE findMany(rounds, statusNamed(status))
       IN lastResp' = Json("export", 200, [ csv |-> { csvRow(id, rounds[id]) : id \in found } ])
    /\ UNCHANGED << rounds, inflight, startOk, engineVars >>

\* Query strings that fail a check of GET /api/verify.
BadQueries ==
    { << "s","e","r","v","e","r","S","e","e","d","=","a","b","&",
         "c","l","i","e","n","t","S","e","e","d","=","c","&","n","o","n","c","e","=","1" >>,
      << "s","e","r","v","e","r","S","e","e","d","=","a","b","&",
         "c","l","i","e","n","t","S","e","e","d","=","c","&","n","o","n","c","e","=","1","&",
         "d","r","o","p","C","o","l","u","m","n","=","1","3" >>,
      << "s","e","r","v","e","r","S","e","e","d","=","a","b","&",
         "c","l","i","e","n","t","S","e","e","d","=","&","n","o","n","c","e","=","1","&",
         "d","r","o","p","C","o","l","u","m","n","=","z" >> }

\* The query strings of the verify requests: the verifier links of the
\* revealed rounds, and the malformed ones.
VerifyQueries ==
    { verifyQuery(rounds[id]) : id \in findMany(rounds, "REVEALED") } \cup BadQueries

\* The answer of GET /api/verify once computePlinkoOutcome has returned.
verifyComputed(query, serverSeed, clientSeed, nonce, dropColumn, commitHex, combinedSeed, outcome) ==
    Json("verify", 200,
         [ query |-> query,
           inputs |-> [ serverSeed |-> serverSeed, clientSeed |-> clientSeed,
                        nonce |-> nonce, dropColumn |-> dropColumn ],
           computed |-> [ commitHex |-> commitHex, combinedSeed |-> combinedSeed,
                          pegMapHash |-> outcome.pegMapHash,
                          binIndex |-> outcome.binIndex,
                          path |-> outcome.path ] ])

\* GET /api/verify once the query string is parsed: the four get calls, the
\* checks, and the values recomputed.
verifyParams(query, params) ==
    LET serverSeed    == getParam(params, << "s","e","r","v","e","r","S","e","e","d" >>)
        clientSeed    == getParam(params, << "c","l","i","e","n","t","S","e","e","d" >>)
        nonce         == getParam(params, << "n","o","n","c","e" >>)
        dropColumnStr == getParam(params, << "d","r","o","p","C","o","l","u","m","n" >>)
        dropColumn    == parseInt10(dropColumnStr)
        combinedSeed  == generateCombinedSeed(serverSeed, clientSeed, nonce)
    IN IF falsy(serverSeed) \/ falsy(clientSeed) \/ falsy(nonce) \/ falsy(dropColumnStr)
       THEN Json("verify", 400, [ query |-> query,
                   error |-> "Missing required parameters: serverSeed, clientSeed, nonce, dropColumn" ])
       ELSE IF dropColumn.nan \/ dropColumn.value < 0 \/ dropColumn.value > 12
       THEN Json("verify", 400, [ query |-> query,
                   error |-> "dropColumn must be a number between 0 and 12" ])
       ELSE verifyComputed(query, serverSeed, clientSeed, nonce, dropColumn.value,
                           generateCommitHex(serverSeed, nonce), combinedSeed,
                           computePlinkoOutcome(combinedSeed, dropColumn))

\* GET /api/verify
VerifyGet(query) ==
    /\ idle
    /\ lastResp' = verifyParams(query, searchParams(query))
    /\ UNCHANGED << rounds, inflight, startOk, engineVars >>

\* The response goes out to the client.
Deliver ==
    /\ lastResp.kind # "none"
    /\ lastResp' = NoResp
    /\ UNCHANGED << rounds, inflight, startOk, engineVars >>

(***************************************************************************)
(* Specifications                                                          *)
(***************************************************************************)
ProtoInit ==
    /\ rounds = << >>
    /\ inflight = EmptyBag
    /\ lastResp = NoResp
    /\ startOk = << >>

EngineInit ==
    /\ calls = [c \in Callers |-> IdleCall]
    /\ prngs = << >>
    /\ drawn = << >>
    /\ returned = { }
    /\ nCalls = 0
    /\ applied = [ fn |-> "none" ]

Init == ProtoInit /\ EngineInit

\* The ids requests name: those of the table, and one it never holds.
RoundIds == 1..(MaxRounds + 1)

\* The round lifecycle over HTTP.
Next ==
    \/ \E bytes \in RandomBytes, n \in RandomNonces : Commit(bytes, n)
    \/ \E id \in RoundIds, body \in StartBodies : StartRead(id, body)
    \/ \E h \in BagToSet(inflight) : StartWrite(h)
    \/ \E id \in RoundIds : RevealRead(id)
    \/ \E h \in BagToSet(inflight) : RevealWrite(h)
    \/ \E id \in RoundIds : GetRound(id)
    \/ \E limitStr \in LimitParams : GetRounds(limitStr)
    \/ \E statusParam \in StatusParams : Export(statusParam)
    \/ \E query \in VerifyQueries : VerifyGet(query)
    \/ Deliver

Spec == Init /\ [][Next]_vars

\* Generators constructed and drawn from directly.
NextPrng ==
    \/ \E seed \in PrngSeeds : NewPrng(seed)
    \/ \E i \in 1..MaxPrngs : NextDraw(i)

SpecPrng == Init /\ [][NextPrng]_vars

\* Calls of computePlinkoOutcome.
NextEngine ==
    \/ \E c \in Callers, in \in EngineInputs : Call(c, in)
    \/ \E c \in Callers : PegStep(c)
    \/ \E c \in Callers : HashStep(c)
    \/ \E c \in Callers : DropStep(c)
    \/ \E c \in Callers : Return(c)

SpecEngine == Init /\ [][NextEngine]_vars

\* The arguments replayRound is called with: rounds to replay,
ReplayInputs ==
    { << RefSeed, Integer(6) >>, << ZeroSeed, Integer(12) >>,
      << RefSeed, Integer(13) >>, << RefSeed, NotANumber >> }

\* and the fingerprints expected: those of the boards of these rounds, each
\* also with its first character replaced, and the empty string.
ExpectedHashes ==
    LET hashes == { hashPegMapOf(generatePegMapOn(Xorshift32(in[1])).pegMap) : in \in ReplayInputs }
    IN hashes \cup { [h EXCEPT ![1] = IF h[1] = "0" THEN "1" ELSE "0"] : h \in hashes }
              \cup { << >> }

\* getMultiplier and replayRound, called directly.
NextLib ==
    \/ \E binIndex \in BinIndexes : GetMultiplier(binIndex)
    \/ \E in \in ReplayInputs, b \in ExpectedBins, h \in ExpectedHashes : ReplayRound(in, b, h)

SpecLib == Init /\ [][NextLib]_vars

(***************************************************************************)
(* Properties                                                              *)
(***************************************************************************)
\* commitHex with its i-th character replaced by c
mutateAt(commitHex, i, c) == [commitHex EXCEPT ![i] = c]

\* C1: the commitHex POST commit has just published verifies against the
\* round's serverSeed and nonce, and no string that differs from it in one
\* character does.
C1_CommitRoundTrip ==
    (lastResp.kind = "commit") =>
        LET round == rounds[lastResp.body.roundId]
        IN /\ verifyCommit(lastResp.body.commitHex, round.serverSeed, round.nonce)
           /\ \A i \in 1..Len(lastResp.body.commitHex) :
                \A k \in 1..Len(Alphabet) :
                   Alphabet[k] # lastResp.body.commitHex[i]
                   => ~verifyCommit(mutateAt(lastResp.body.commitHex, i, Alphabet[k]),
                                    round.serverSeed, round.nonce)

C1_Witness ==
    /\ lastResp.kind = "commit"
    /\ Len(lastResp.body.commitHex) = 2 * DigestBytes
    /\ rounds[lastResp.body.roundId].serverSeed # << >>

\* C2: every round has its commitHex from the moment it exists, the round
\* POST commit answers about is CREATED, and a round whose status is CREATED
\* has an empty clientSeed and an empty combinedSeed.
C2_CommitBeforeClientSeed ==
    /\ \A id \in DOMAIN rounds :
          /\ rounds[id].commitHex # << >>
          /\ rounds[id].status = "CREATED"
             => rounds[id].clientSeed = << >> /\ rounds[id].combinedSeed = << >>
          /\ rounds[id].combinedSeed # << >> => rounds[id].clientSeed # << >>
    /\ lastResp.kind = "commit"
       => /\ rounds[lastResp.body.roundId].status = "CREATED"
          /\ rounds[lastResp.body.roundId].commitHex = lastResp.body.commitHex

C2_Witness ==
    \E id \in DOMAIN rounds :
        /\ rounds[id].status = "CREATED"
        /\ \E h \in BagToSet(inflight) :
              h.op = "start" /\ h.id = id /\ h.body.clientSeed # << >>

\* The rounds whose serverSeed a response carries.
disclosed(resp) ==
    IF resp.kind \in { "none", "verify" } \/ resp.status # 200 THEN { }
    ELSE IF resp.kind = "rounds"
         THEN { e.roundId : e \in { x \in resp.body.rounds : x.serverSeed # << >> } }
    ELSE IF resp.kind = "export"
         THEN { id \in DOMAIN rounds :
                  \E row \in resp.body.csv : row[1] = escapeCsv(String(id)) /\ row[5] # << >> }
    ELSE IF "serverSeed" \in DOMAIN resp.body
         THEN { IF resp.kind = "round" THEN resp.body.id ELSE resp.body.roundId }
    ELSE { }

\* C3: a response carries the serverSeed of a round only if that round's
\* status is REVEALED when the response is built.
C3_SeedOnlyAfterReveal ==
    \A id \in disclosed(lastResp) : rounds[id].status = "REVEALED"

\* C4: the status of a round stays, or moves CREATED -> STARTED, or moves
\* STARTED -> REVEALED; a start or reveal request answered 400 leaves the
\* table as it is.
C4_StatusMovesForward ==
    [][ /\ \A id \in DOMAIN rounds :
             \/ rounds'[id].status = rounds[id].status
             \/ rounds[id].status = "CREATED" /\ rounds'[id].status = "STARTED"
             \/ rounds[id].status = "STARTED" /\ rounds'[id].status = "REVEALED"
        /\ (lastResp'.kind \in { "start", "reveal" } /\ lastResp'.status = 400)
             => rounds' = rounds ]_vars

\* C5: no round has more than one start request answered with success.
C5_StartedAtMostOnce ==
    \A id \in DOMAIN rounds : startOk[id] <= 1

\* C6: no step changes the serverSeed, nonce or commitHex of a round, and the
\* step that answers a reveal request changes none of clientSeed,
\* combinedSeed, dropColumn, pegMapHash, binIndex, payoutMultiplier either.
C6_CommitmentFixed ==
    [][ \A id \in DOMAIN rounds :
          /\ rounds'[id].serverSeed = rounds[id].serverSeed
          /\ rounds'[id].nonce = rounds[id].nonce
          /\ rounds'[id].commitHex = rounds[id].commitHex
          /\ lastResp'.kind = "reveal"
             => /\ rounds'[id].clientSeed = rounds[id].clientSeed
                /\ rounds'[id].combinedSeed = rounds[id].combinedSeed
                /\ rounds'[id].dropColumn = rounds[id].dropColumn
                /\ rounds'[id].pegMapHash = rounds[id].pegMapHash
                /\ rounds'[id].binIndex = rounds[id].binIndex
                /\ rounds'[id].payoutMultiplier = rounds[id].payoutMultiplier ]_vars

C6_Witness ==
    /\ lastResp.kind = "reveal"
    /\ lastResp.status = 200
    /\ rounds[lastResp.body.roundId].status = "REVEALED"
    /\ rounds[lastResp.body.roundId].combinedSeed # << >>

\* C7: GET /api/verify with the query of a REVEALED round's verifier link
\* answers 200 with the commitHex, combinedSeed, pegMapHash and binIndex
\* stored for that round.
C7_VerifyAgreesWithStored ==
    (lastResp.kind = "verify") =>
        \A id \in DOMAIN rounds :
            (rounds[id].status = "REVEALED" /\ lastResp.body.query = verifyQuery(rounds[id]))
            => /\ lastResp.status = 200
               /\ lastResp.body.computed.commitHex = rounds[id].commitHex
               /\ lastResp.body.computed.combinedSeed = rounds[id].combinedSeed
               /\ lastResp.body.computed.pegMapHash = rounds[id].pegMapHash
               /\ lastResp.body.computed.binIndex = rounds[id].binIndex

C7_Witness ==
    /\ lastResp.kind = "verify"
    /\ lastResp.status = 200
    /\ \E id \in DOMAIN rounds :
          /\ rounds[id].status = "REVEALED"
          /\ rounds[id].clientSeed = ClientSeeds[2]
          /\ lastResp.body.query = verifyQuery(rounds[id])

\* The results handed back so far, with those of the calls about to return.
results ==
    returned \cup
      { [ combinedSeed |-> calls[c].combinedSeed, dropColumn |-> calls[c].dropColumn,
          result |-> resultOf(calls[c]) ] :
        c \in { d \in Callers : calls[d].pc \in { "done", "thrown" } } }

\* C8: two calls of computePlinkoOutcome with the same arguments hand back
\* the same pegMap, pegMapHash, path and binIndex, whatever calls ran before
\* or between them.
C8_OutcomeDeterministic ==
    \A a, b \in results :
        (a.combinedSeed = b.combinedSeed /\ a.dropColumn = b.dropColumn)
        => a.result = b.result

C8_Witness ==
    /\ nCalls >= 3
    /\ \A c \in Callers : calls[c].pc = "idle"
    /\ Cardinality(returned) = 2
    /\ \A r \in returned : ~r.result.error

\* C9: two generators constructed from the same seed return the same k-th
\* draw, for every k both have reached.
C9_SameSeedSameDraws ==
    \A i, j \in 1..Len(drawn) :
        drawn[i].seed = drawn[j].seed
        => \A k \in 1..Len(drawn[i].draws) :
              k <= Len(drawn[j].draws) => drawn[i].draws[k] = drawn[j].draws[k]

C9_Witness ==
    \E i, j \in 1..Len(drawn) :
        /\ i # j
        /\ drawn[i].seed = drawn[j].seed
        /\ Len(drawn[i].draws) >= 2
        /\ Len(drawn[j].draws) >= 2

\* C10: the state of every generator is an unsigned 32-bit integer in
\* [1, 2^32 - 1], after construction and after every next().
C10_StateNeverZero ==
    \A id \in 1..Len(prngs) :
        /\ ~prngs[id].nan
        /\ ~prngs[id].neg
        /\ prngs[id].hi \in 0..(Half - 1)
        /\ prngs[id].lo \in 0..(Half - 1)
        /\ ~(prngs[id].hi = 0 /\ prngs[id].lo = 0)

\* The first 8 characters of seed are hex digits.
hasHex8(seed) == Len(seed) >= 8 /\ \A i \in 1..8 : HexValue(seed[i]) >= 0

\* The four characters of seed from place i on, read as a big-endian
\* unsigned integer: one 16-bit half of the 32-bit value of eight.
bigEndian4(seed, i) ==
    HexValue(seed[i]) * 4096 + HexValue(seed[i + 1]) * 256
    + HexValue(seed[i + 2]) * 16 + HexValue(seed[i + 3])

\* C11: a generator that has not drawn yet, constructed from a seed whose
\* first 8 characters are hex digits, holds their big-endian value, or 1 when
\* that value is 0; and two calls of computePlinkoOutcome whose seeds share
\* their first 8 characters hand back the same result for the same dropColumn.
C11_StateFromFirstEight ==
    /\ \A i \in 1..Len(drawn) :
          (drawn[i].draws = << >> /\ hasHex8(drawn[i].seed))
          => prngs[drawn[i].prng] =
               IF bigEndian4(drawn[i].seed, 1) = 0 /\ bigEndian4(drawn[i].seed, 5) = 0
               THEN Num(FALSE, Word(0, 1))
               ELSE Num(FALSE, Word(bigEndian4(drawn[i].seed, 1),
                                    bigEndian4(drawn[i].seed, 5)))
    /\ \A a, b \in results :
          (substring0(a.combinedSeed, 8) = substring0(b.combinedSeed, 8)
             /\ a.dropColumn = b.dropColumn)
          => a.result = b.result

C11_Witness ==
    /\ \E a, b \in returned :
          /\ a.combinedSeed = RefSeed /\ b.combinedSeed = TwinSeed
          /\ a.dropColumn = b.dropColumn
          /\ ~a.result.error
    /\ \E i \in 1..Len(drawn) : drawn[i].seed = ZeroSeed /\ drawn[i].draws = << >>

\* The boards generatePegMap has returned: those held by the calls past it
\* and those of the results handed back.
boards ==
    { calls[c].pegMap : c \in { d \in Callers : calls[d].pc \in { "hash", "drop", "done" } } }
    \cup { r.result.pegMap : r \in { x \in returned : ~x.result.error } }

\* C12: every board generatePegMap has returned has exactly ROWS = 12 rows,
\* and its row r (counted from 0) has exactly r + 1 pegs.
C12_BoardIsTriangle ==
    \A pegMap \in boards :
        /\ Len(pegMap.rows) = 12
        /\ \A r \in 0..11 : Len(pegMap.rows[r + 1]) = r + 1

C12_Witness ==
    /\ \E c \in Callers : calls[c].pc = "hash" /\ calls[c].combinedSeed = MinusSeed
    /\ \E r \in returned : r.combinedSeed = EmptySeed /\ ~r.result.error

\* C13: every leftBias of every board generatePegMap has returned lies in
\* [0.4, 0.6] (in millionths), and so do the biases of the least and the
\* greatest draw a generator can return.
C13_BiasInRange ==
    /\ \A pegMap \in boards :
          \A r \in 1..Len(pegMap.rows) : \A p \in 1..Len(pegMap.rows[r]) :
              /\ pegMap.rows[r][p].leftBias >= 400000
              /\ pegMap.rows[r][p].leftBias <= 600000
    /\ leftBiasOf(Word(0, 0)) = 400000
    /\ leftBiasOf(Word(Half - 1, Half - 1)) = 600000

C13_Witness ==
    \E pegMap \in boards :
        /\ \E r \in 1..Len(pegMap.rows) : \E p \in 1..Len(pegMap.rows[r]) :
              pegMap.rows[r][p].leftBias > 500000
        /\ \E r \in 1..Len(pegMap.rows) : \E p \in 1..Len(pegMap.rows[r]) :
              pegMap.rows[r][p].leftBias < 450000

\* The draws s are consecutive values of one xorshift stream: each is what
\* next() returns from the state the one before it left.
consecutive(s) ==
    \A k \in 1..(Len(s) - 1) : s[k + 1] = DrawOf(XorshiftNext(Num(FALSE, s[k])))

\* The callers whose call has just had generatePegMap return.
afterBoard == { c \in Callers : calls[c].pc = "hash" }

\* C14: when generatePegMap has returned, the generator of the call has
\* returned exactly 78 draws, they are the first 78 values of the stream of
\* its seed, its state is the one the 78th left, and the peg at row r,
\* position p has the bias of draw number r(r+1)/2 + p + 1.
C14_OneDrawPerPeg ==
    \A c \in afterBoard :
        LET draws == drawn[calls[c].gen].draws
        IN /\ Len(draws) = 78
           /\ draws[1] = DrawOf(XorshiftNext(Xorshift32(calls[c].combinedSeed)))
           /\ consecutive(draws)
           /\ prngs[calls[c].prng] = Num(FALSE, draws[78])
           /\ \A r \in 0..11 : \A p \in 0..r :
                 calls[c].pegMap.rows[r + 1][p + 1].leftBias
                   = leftBiasOf(draws[(r * (r + 1)) \div 2 + p + 1])

C14_Witness ==
    \E c \in afterBoard :
        /\ calls[c].combinedSeed = RefSeed
        /\ calls[c].pegMap.rows[12][12].leftBias # calls[c].pegMap.rows[1][1].leftBias
        /\ Len(drawn[calls[c].gen].draws) = 78

\* The callers whose call has had simulateDrop return.
afterDropped == { c \in Callers : calls[c].pc = "done" }

\* C15: when simulateDrop has returned inside computePlinkoOutcome, the
\* generator of the call has returned exactly 90 draws, they are the first
\* 90 values of the one stream seeded from combinedSeed, and the decision at
\* row r was taken on draw number 78 + r + 1.
C15_DropContinuesStream ==
    \A c \in afterDropped :
        LET draws == drawn[calls[c].gen].draws
        IN /\ Len(draws) = 90
           /\ draws[1] = DrawOf(XorshiftNext(Xorshift32(calls[c].combinedSeed)))
           /\ consecutive(draws)
           /\ \A r \in 0..11 : calls[c].path[r + 1].randomValue = draws[78 + r + 1]

C15_Witness ==
    \E c \in afterDropped :
        /\ calls[c].combinedSeed = RefSeed
        /\ calls[c].dropColumn = Integer(0)
        /\ calls[c].path[1].randomValue # calls[c].path[12].randomValue
        /\ Len(drawn[calls[c].gen].draws) = 90

\* The number of RIGHT decisions among the first n of path.
RECURSIVE rightMoves(_, _)
rightMoves(path, n) ==
    IF n = 0 THEN 0
    ELSE rightMoves(path, n - 1) + (IF path[n].decision = "RIGHT" THEN 1 ELSE 0)

\* The paths simulateDrop has returned: those of the calls past it and those
\* of the results handed back.
paths ==
    { calls[c].path : c \in afterDropped }
    \cup { r.result.path : r \in { x \in returned : ~x.result.error } }

\* C16: every path simulateDrop has returned has exactly 12 decisions; the
\* decision of row r has row = r and pegIndex = min(position, r), position
\* being the number of RIGHT decisions of rows 0..r-1; pegIndex lies in 0..r.
C16_PathFollowsPosition ==
    \A path \in paths :
        /\ Len(path) = 12
        /\ \A r \in 0..11 :
              /\ path[r + 1].row = r
              /\ path[r + 1].pegIndex =
                    (IF rightMoves(path, r) < r THEN rightMoves(path, r) ELSE r)
              /\ path[r + 1].pegIndex \in 0..r

C16_Witness ==
    \E path \in paths :
        /\ path[12].pegIndex > 0
        /\ path[12].pegIndex < 11
        /\ \E r \in 1..11 : path[r + 1].pegIndex = path[r].pegIndex

\* The results computePlinkoOutcome has handed back for a valid dropColumn.
outcomes == { x \in returned : ~x.dropColumn.nan /\ x.dropColumn.value \in 0..12 }

\* C17: the binIndex of every result computePlinkoOutcome hands back for a
\* valid dropColumn is the number of RIGHT decisions of its path.
C17_BinCountsRights ==
    \A x \in outcomes :
        /\ ~x.result.error
        /\ x.result.binIndex = rightMoves(x.result.path, Len(x.result.path))

C17_Witness ==
    \E x \in outcomes :
        /\ x.result.binIndex >= 2
        /\ x.result.binIndex <= 10
        /\ x.result.path[1].decision # x.result.path[2].decision
           \/ x.result.path[2].decision # x.result.path[3].decision

\* C18: the binIndex of every result computePlinkoOutcome hands back for a
\* dropColumn in 0..12 is an integer in 0..12.
C18_BinInRange ==
    \A x \in outcomes : x.result.binIndex \in 0..12

C18_Witness ==
    /\ \E x \in outcomes : x.dropColumn.value = 12 /\ x.result.binIndex \in 0..12
    /\ \E x \in outcomes : x.dropColumn.value = 0 /\ x.result.binIndex \in 0..12

\* dropColumn does not satisfy 0 <= dropColumn <= 12.
outOfRange(dropColumn) == dropColumn.nan \/ dropColumn.value < 0 \/ dropColumn.value > 12

\* C19: a call of computePlinkoOutcome whose dropColumn does not satisfy
\* 0 <= dropColumn <= 12 throws at its entry, with no board, hash or path
\* computed, and what it hands back is the error.
C19_InvalidColumnRejected ==
    /\ \A c \in Callers :
          (calls[c].pc # "idle" /\ outOfRange(calls[c].dropColumn))
          => /\ calls[c].pc = "thrown"
             /\ calls[c].pegMap = NoPegMap
             /\ calls[c].pegMapHash = NoHash
             /\ calls[c].path = << >>
    /\ \A x \in returned : outOfRange(x.dropColumn) => x.result.error

\* The seed is empty, or its first character is no hex digit.
malformed(seed) == seed = << >> \/ HexValue(seed[1]) < 0

\* C20: a call of computePlinkoOutcome with an empty or malformed
\* combinedSeed does not get past its entry, and what it hands back is an
\* error, not an outcome.
C20_MalformedSeedRejected ==
    /\ \A c \in Callers :
          malformed(calls[c].combinedSeed) => calls[c].pc \in { "idle", "thrown" }
    /\ \A x \in returned : malformed(x.combinedSeed) => x.result.error

\* C21: replayRound returns matches = true exactly when the binIndex and the
\* pegMapHash it recomputed both equal the expected ones; from a call that
\* matched, another expected binIndex alone, or an expected pegMapHash that
\* differs in one character alone, gives matches = false.
C21_ReplayNeedsBoth ==
    (applied.fn = "replayRound" /\ ~applied.result.error) =>
        LET recomputed == computePlinkoOutcome(applied.combinedSeed, applied.dropColumn)
            bin        == applied.expectedBinIndex
            hash       == applied.expectedPegMapHash
        IN /\ applied.result.result = recomputed
           /\ applied.result.matches
                <=> /\ bin = Integer(recomputed.binIndex)
                    /\ hash = recomputed.pegMapHash
           /\ applied.result.matches =>
                /\ \A b \in ExpectedBins \ { bin } :
                      ~replayRound(applied.combinedSeed, applied.dropColumn, b, hash).matches
                /\ \A i \in 1..Len(hash) : \A k \in 1..Len(Alphabet) :
                      Alphabet[k] # hash[i]
                      => ~replayRound(applied.combinedSeed, applied.dropColumn, bin,
                                      mutateAt(hash, i, Alphabet[k])).matches

C21_Witness ==
    /\ applied.fn = "replayRound"
    /\ applied.combinedSeed = RefSeed
    /\ applied.dropColumn = Integer(6)
    /\ ~applied.result.error
    /\ applied.result.matches
    /\ applied.expectedBinIndex = Integer(6)
\* C22: getMultiplier(i) returns for every bin index i in 0..12 what
\* getMultiplier(12 - i) returns.
C22_PaytableSymmetric ==
    (applied.fn = "getMultiplier" /\ applied.binIndex \in { Integer(i) : i \in 0..12 }) =>
        LET mirrored == getMultiplier(Integer(12 - applied.binIndex.value))
        IN /\ ~applied.result.error
           /\ ~mirrored.error
           /\ applied.result.multiplier = mirrored.multiplier

C22_Witness ==
    /\ applied.fn = "getMultiplier"
    /\ applied.binIndex = Integer(3)
    /\ applied.result.multiplier = 14
\* C23: getMultiplier returns the table's multiplier for every binIndex in
\* 0..12, and for every other binIndex it throws its out-of-range Error
\* ("Invalid bin index").
C23_OutOfRangeRejected ==
    (applied.fn = "getMultiplier") =>
        IF applied.binIndex \in { Integer(i) : i \in 0..12 }
        THEN /\ ~applied.result.error
             /\ applied.result.multiplier = PAYTABLE[applied.binIndex.value + 1]
        ELSE /\ applied.result.error
             /\ applied.result.name = "Error"
\* The first n decimals of the draw w / 2^32 after the point, as an integer
\* added to acc * 10^n, and what is left of the draw behind them.
RECURSIVE decimalsOf(_, _, _)
decimalsOf(w, n, acc) ==
    IF n = 0 THEN [ digits |-> acc, rest |-> w ]
    ELSE LET lo10 == w.lo * 10
             hi10 == w.hi * 10 + lo10 \div Half
         IN decimalsOf(Word(hi10 % Half, lo10 % Half), n - 1, acc * 10 + hi10 \div Half)

\* The draw is within 1e-7 of 0.<five><next>, two groups of five decimals:
\* its first ten decimals are at most 1000 below and less than 1000 above.
near(draw, five, next) ==
    LET a    == decimalsOf(draw, 5, 0)
        b    == decimalsOf(a.rest, 5, 0)
        diff == (a.digits - five) * 100000 + (b.digits - next)
    IN /\ a.digits - five \in -1..1
       /\ diff >= -1000
       /\ diff <= 999

\* The seed's generator starts in state 0xe1dddf77.
reference(seed) ==
    hasHex8(seed) /\ bigEndian4(seed, 1) = 57821 /\ bigEndian4(seed, 5) = 57207

\* C24: a generator started in state 0xe1dddf77 draws, first, values within
\* 1e-7 of 0.1106166649, 0.7625129214, 0.0439292176, 0.4578678815 and
\* 0.3438999297; the board generated from it has row 0 = [0.422123] and row
\* 1 = [0.552503, 0.408786]; and computePlinkoOutcome of the reference
\* combined seed with dropColumn 6 returns binIndex 6.
C24_ReferenceVector ==
    /\ \A i \in 1..Len(drawn) :
          (reference(drawn[i].seed) /\ Len(drawn[i].draws) >= 5)
          => /\ near(drawn[i].draws[1], 11061, 66649)
             /\ near(drawn[i].draws[2], 76251, 29214)
             /\ near(drawn[i].draws[3],  4392, 92176)
             /\ near(drawn[i].draws[4], 45786, 78815)
             /\ near(drawn[i].draws[5], 34389, 99297)
    /\ \A c \in Callers :
          (reference(calls[c].combinedSeed) /\ calls[c].pc \in { "hash", "drop", "done" })
          => /\ calls[c].pegMap.rows[1] = << [ leftBias |-> 422123 ] >>
             /\ calls[c].pegMap.rows[2] = << [ leftBias |-> 552503 ], [ leftBias |-> 408786 ] >>
    /\ \A x \in returned :
          (x.combinedSeed = RefSeed /\ x.dropColumn = Integer(6))
          => ~x.result.error /\ x.result.binIndex = 6

C24_Witness ==
    /\ \E x \in returned :
          x.combinedSeed = RefSeed /\ x.dropColumn = Integer(6) /\ ~x.result.error
    /\ \E c \in Callers : calls[c].combinedSeed = RefSeed /\ calls[c].pc = "hash"
    /\ \E i \in 1..Len(drawn) : drawn[i].seed = RefSeed /\ Len(drawn[i].draws) >= 5
\* The board with the leftBias of peg at[2] of row at[1] (both counted from
\* 1) set to v.
rebias(pegMap, at, v) == [pegMap EXCEPT !.rows[at[1]][at[2]].leftBias = v]

\* The pegs whose bias is changed, and the values it is changed to: the
\* nearest other bias and 0.5.
Rebiased == { << 1, 1 >>, << 6, 3 >>, << 12, 12 >> }
otherBiases(leftBias) ==
    { IF leftBias < 600000 THEN leftBias + 1 ELSE leftBias - 1, 500000 } \ { leftBias }

\* The boards that differ in one leftBias from a board of the engine's inputs.
rebiasedBoards ==
    { rebias(b[1], b[2], b[3]) :
        b \in UNION { { << pegMap, at, v >> : v \in otherBiases(pegMap.rows[at[1]][at[2]].leftBias) } :
                        pegMap \in { PegMapTable[Xorshift32(in[1])].pegMap : in \in EngineInputs },
                        at \in Rebiased } }

\* hashPegMap of each of them.
RebiasedHash == [ pegMap \in rebiasedBoards |-> hashPegMap(pegMap) ]

\* C25: two calls with the same combined seed compute the same pegMapHash,
\* that of the board generated from the seed; and a board that differs from
\* a computed one in a single leftBias has another pegMapHash.
C25_FingerprintStableSensitive ==
    /\ \A c, d \in { e \in Callers : calls[e].pc \in { "drop", "done" } } :
          calls[c].combinedSeed = calls[d].combinedSeed
          => calls[c].pegMapHash = calls[d].pegMapHash
    /\ \A c \in { e \in Callers : calls[e].pc \in { "drop", "done" } } :
          /\ calls[c].pegMapHash
                = hashPegMapOf(generatePegMapOn(Xorshift32(calls[c].combinedSeed)).pegMap)
          /\ \A x \in { y \in returned : ~y.result.error } :
                x.combinedSeed = calls[c].combinedSeed
                => x.result.pegMapHash = calls[c].pegMapHash
          /\ \A at \in Rebiased :
                \A v \in otherBiases(calls[c].pegMap.rows[at[1]][at[2]].leftBias) :
                    tabulated(RebiasedHash, rebias(calls[c].pegMap, at, v),
                              hashPegMap(rebias(calls[c].pegMap, at, v)))
                    # calls[c].pegMapHash

C25_Witness ==
    /\ calls[1].pc = "done" /\ calls[2].pc = "drop"
    /\ calls[1].combinedSeed = RefSeed /\ calls[2].combinedSeed = RefSeed
    /\ calls[1].dropColumn # calls[2].dropColumn
    /\ Len(calls[1].pegMapHash) = 2 * DigestBytes
    /\ \E x \in returned : x.combinedSeed = RefSeed /\ ~x.result.error
\* The calls that hold a generator.
running == { c \in Callers : calls[c].pc \in { "peg", "hash", "drop", "done" } }

\* C26: however the steps of the calls of computePlinkoOutcome interleave,
\* each call hands back what the call run alone from entry to return hands
\* back for its arguments, and no two calls in progress hold the same
\* Xorshift32 object.
C26_ParallelCallsIndependent ==
    /\ \A x \in results : x.result = computePlinkoOutcome(x.combinedSeed, x.dropColumn)
    /\ \A c, d \in running : c # d => calls[c].prng # calls[d].prng

C26_Witness ==
    /\ calls[1].pc = "drop" /\ calls[2].pc = "hash"
    /\ calls[1].combinedSeed # calls[2].combinedSeed
    /\ Len(drawn[calls[1].gen].draws) = 78 /\ Len(drawn[calls[2].gen].draws) = 78
    /\ \E x \in returned : ~x.result.error
\* The start requests that passed the input validation and found their
\* round CREATED: the handlers about to compute an outcome.
starting == { h \in BagToSet(inflight) : h.op = "start" /\ h.round.status = "CREATED" }

\* C27: for every start request that passed the input validation,
\* computePlinkoOutcome returns a binIndex in 0..12 and getMultiplier of it
\* does not throw; POST start never answers 500, and the payoutMultiplier of
\* a 200 answer is the paytable's entry for its binIndex.
C27_PayoutErrorUnreachable ==
    /\ \A h \in starting :
          LET outcome == computePlinkoOutcome(
                             generateCombinedSeed(h.round.serverSeed, h.body.clientSeed,
                                                  h.round.nonce),
                             Integer(h.body.dropColumn))
          IN /\ ~outcome.error
             /\ outcome.binIndex \in 0..12
             /\ ~getMultiplier(Integer(outcome.binIndex)).error
    /\ lastResp.kind = "start" => lastResp.status # 500
    /\ (lastResp.kind = "start" /\ lastResp.status = 200)
       => /\ lastResp.body.binIndex \in 0..12
          /\ lastResp.body.payoutMultiplier = PAYTABLE[lastResp.body.binIndex + 1]

C27_Witness ==
    /\ lastResp.kind = "start"
    /\ lastResp.status = 200
    /\ lastResp.body.binIndex = 8
    /\ lastResp.body.payoutMultiplier = 11
    /\ starting # { }
\* The fields of a started round agree with one another: the combined seed
\* with the seeds and the nonce, binIndex and pegMapHash with the outcome
\* of the combined seed and the dropColumn, the multiplier with the paytable.
settled(round) ==
    LET outcome == computePlinkoOutcome(round.combinedSeed, Integer(round.dropColumn))
        payout  == getMultiplier(Integer(round.binIndex))
    IN /\ round.combinedSeed
            = generateCombinedSeed(round.serverSeed, round.clientSeed, round.nonce)
       /\ ~outcome.error
       /\ round.binIndex = outcome.binIndex
       /\ round.pegMapHash = outcome.pegMapHash
       /\ ~payout.error
       /\ round.payoutMultiplier = payout.multiplier

\* C28: every stored round has commitHex = generateCommitHex(serverSeed,
\* nonce), and every round whose status is STARTED or REVEALED has its
\* combinedSeed, binIndex, pegMapHash and payoutMultiplier in agreement,
\* also when start requests for the same round interleave.
C28_StoredRoundConsistent ==
    \A id \in DOMAIN rounds :
        /\ rounds[id].commitHex = generateCommitHex(rounds[id].serverSeed, rounds[id].nonce)
        /\ rounds[id].status \in { "STARTED", "REVEALED" } => settled(rounds[id])

C28_Witness ==
    \E id \in DOMAIN rounds :
        /\ startOk[id] >= 2
        /\ rounds[id].status = "REVEALED"
        /\ rounds[id].clientSeed = ClientSeeds[2]
        /\ rounds[id].payoutMultiplier > 0
\* The randomValue recorded at each row of a path.
randomValues(path) == [ r \in 1..Len(path) |-> path[r].randomValue ]

C30_ClampsNeverBind ==
    \A x \in outcomes : \A r \in 0..11 :
        LET step == x.result.path[r + 1]
        IN /\ rightMoves(x.result.path, r) <= r
           /\ step.pegIndex = rightMoves(x.result.path, r)
           /\ step.adjustedBias = Integer(step.leftBias + (x.dropColumn.value - 6) * 10000)
           /\ step.adjustedBias.value >= 340000
           /\ step.adjustedBias.value <= 660000

C30_Witness ==
    /\ \E x \in outcomes : \E r \in 1..11 :
          /\ x.result.path[r + 1].pegIndex = r
          /\ x.result.path[r + 1].adjustedBias.value # x.result.path[r + 1].leftBias
    /\ \E x \in outcomes : x.dropColumn = Integer(0) /\ x.result.path[1].adjustedBias.value < 400000
====
